---- MODULE Spec2Model ----
(***************************************************************************)
(* Model of the LED wall client's content synchronisation and playback     *)
(* lifecycle: ServerConnection (modules/network.py), LEDWallClient         *)
(* (main.py) and MediaPlayer (modules/player.py).                          *)
(*                                                                         *)
(* The program is multi-threaded and takes no lock anywhere: the poll      *)
(* thread and the push (socket.io) handler both run                        *)
(* _handle_content_update, every play() spawns a monitor thread that runs  *)
(* the end-of-playback callback, and every handled assignment spawns a     *)
(* reset thread.  Each action below is one step of one thread: it reads or *)
(* writes one shared field (a step that touches no shared field is joined  *)
(* to the step before it), so that every interleaving of the threads'      *)
(* accesses to the shared fields is a behaviour of the model.              *)
(*                                                                         *)
(* Specifications, all over the same variables:                            *)
(*   Spec         the content pipeline, assignments from both transports   *)
(*   SpecPi       the same on a Raspberry Pi with xdotool (window kill)    *)
(*   SpecSolo     the poll channel alone, with media files being removed   *)
(*   SpecExit     the poll channel alone, with the shutdown signal         *)
(*   SpecNet      registration, the push connection and the poll loops,    *)
(*                the server having no content assigned                    *)
(*   FairSpecNet  SpecNet with every thread scheduled in the end           *)
(*   SpecStatus   SpecNet with status reports being sent                   *)
(*   FairSpec     Spec with every thread scheduled in the end              *)
(***************************************************************************)
EXTENDS Integers, FiniteSets, Sequences, TLC

\* ----------------------------------------------------------------- bounds
MaxProcs == 2        \* player processes (Popen calls that succeed) per run
MaxEvents == 2       \* assignment events delivered by the two transports
SoloProcs == 3       \* player processes per run when only the poll channel delivers
SoloEvents == 2      \* poll rounds that return an assignment in such a run
ExitEvents == 1      \* poll rounds that return an assignment in a run that is shut down
MaxDeletes == 1      \* media files removed from downloads/ behind the client's back
MaxQueries == 2      \* status queries of the poll loops while no content is assigned
MaxConnects == 2     \* times the push channel comes up in a run
MaxSends == 2        \* send_status_update calls in a run of the transport alone

\* ------------------------------------------------------------- vocabulary
Contents == {"A", "B"}
NoContent == "none"                 \* Python None for a content id
NoProc == 0                         \* Python None for player_process
AllProcs == IF SoloProcs > MaxProcs THEN SoloProcs ELSE MaxProcs
Procs == 1..AllProcs
Monitors == Procs                   \* monitor thread m is started by the play() that created process m
Poll == AllProcs + 1                \* the polling thread
Push == AllProcs + 2                \* the socket.io event thread
Main == AllProcs + 3                \* the main thread (run, the signal handler)
Handlers == {Poll, Push}
Threads == Monitors \cup Handlers \cup {Main}
Statuses == {"playing", "stopped", "error"}
ExitCodes == {0, 1}                 \* a player's own exit: clean, or a crash
KilledCode == -15                   \* returncode of a process ended by stop()

VARIABLES
    last_handled_content_id,  \* ServerConnection._last_handled_content_id (the dedup guard)
    current_content,  \* LEDWallClient.current_content
    player_process,   \* MediaPlayer.player_process
    file,             \* downloads/<filename> of each content: absent, partial, complete
    proc,             \* every player process started so far
    nprocs,           \* how many processes were started
    pc,               \* each thread's position
    cid,              \* each thread's content_id / content_info
    ret,              \* where the thread's current stop() call returns to
    mproc,            \* each monitor's local variable `process`
    outcome,          \* what the content callback of each handler did
    resetSleep,       \* reset_handled_id threads in their sleep, per content
    resetArmed,       \* reset threads between their test and their assignment
    xdotool,          \* is_raspberry_pi and shutil.which('xdotool')
    client_id,        \* ServerConnection.client_id is set (the client is registered)
    socket,           \* ServerConnection.socket is not None
    socket_connected, \* ServerConnection.socket_connected
    polling_active,   \* ServerConnection._polling_active
    loops,            \* running _polling_loop threads
    link,             \* the socket.io library's connection to the server: down, up
    registers,        \* history: 'register' events emitted on the socket
    queries,          \* history: GET /api/client/{id} requests of the poll loops
    lim,              \* how many processes and events this run may see
    deletes,          \* history: media files removed from downloads/ by others
    running,          \* LEDWallClient.running
    su,               \* the send_status_update call in progress, or the last one made
    handled,          \* what each thread's last _handle_content_update call returned
    first,            \* history: the content of the first assignment event
    events,           \* history: assignment events delivered
    infoReqs,         \* history: GET /api/content/{id} requests, per content
    dlAttempts,       \* history: GET /api/content/{id}/file requests, per content
    sent,             \* history: send_status_update calls, per status and content
    cbCnt,            \* history: end-of-playback callbacks per process and content info
    resetFired        \* history: some reset thread has finished its sleep

net == <<client_id, socket, socket_connected, polling_active, loops, link, registers, queries>>
env == <<lim, deletes, running, su, first>>
ctl == <<env, handled>>
shared == <<last_handled_content_id, current_content, player_process, file, proc, nprocs, xdotool, net, ctl>>
locals == <<pc, cid, ret, mproc, outcome, resetSleep, resetArmed>>
hist == <<events, infoReqs, dlAttempts, sent, cbCnt, resetFired>>
vars == <<shared, locals, hist>>

NoProcRec == [st |-> "unborn", content |-> NoContent, code |-> 0, by |-> "none"]

\* No send_status_update call was made yet: calls made, socket.emit and
\* requests.post calls of the current one, how each ended, the value returned
NoSend == [calls |-> 0, emits |-> 0, posts |-> 0, push |-> "none", http |-> "none",
           result |-> "none"]

Exists_Always(c) == TRUE            \* a lookup that finds every file
Exists_Never(c) == FALSE            \* a lookup that finds no file
Exists(c) == file[c] # "absent"     \* os.path.exists(file_path)
Alive == {p \in Procs : proc[p].st = "running"}

InitPipeline ==
    /\ last_handled_content_id = NoContent
    /\ current_content = NoContent
    /\ player_process = NoProc
    /\ file = [c \in Contents |-> "absent"]
    /\ proc = [p \in Procs |-> NoProcRec]
    /\ nprocs = 0
    /\ cid = [t \in Threads |-> NoContent]
    /\ ret = [t \in Threads |-> "idle"]
    /\ mproc = [m \in Monitors |-> NoProc]
    /\ outcome = [h \in Handlers |-> "none"]
    /\ resetSleep = [c \in Contents |-> 0]
    /\ resetArmed = [c \in Contents |-> 0]
    /\ events = 0
    /\ infoReqs = [c \in Contents |-> 0]
    /\ dlAttempts = [c \in Contents |-> 0]
    /\ sent = [s \in Statuses |-> [c \in Contents |-> 0]]
    /\ cbCnt = [p \in Procs |-> [c \in Contents |-> 0]]
    /\ resetFired = FALSE
    /\ su = NoSend
    /\ handled = [h \in Handlers |-> "none"]
    /\ first = NoContent

\* The client is up: the main thread is in its loop (main.py lines 182-185),
\* every other thread waits for its next event
InitCommon ==
    /\ InitPipeline
    /\ pc = [t \in Threads |-> "idle"]

\* The transport fields once the client is registered and the push channel is
\* up, the poll loop being in its last round
PushUp ==
    /\ client_id = TRUE
    /\ socket = TRUE
    /\ socket_connected = TRUE
    /\ polling_active = FALSE
    /\ loops = 1
    /\ link = "up"
    /\ registers = 1
    /\ queries = 0

\* Windows, or Linux without xdotool: stop() uses terminate()/wait()/kill().
\* Spec follows the content pipeline and leaves open which transport delivers
\* an assignment; the transport fields and the main thread do not move.
Init ==
    /\ InitCommon
    /\ xdotool = FALSE
    /\ PushUp
    /\ lim = [procs |-> MaxProcs, events |-> MaxEvents]
    /\ deletes = 0
    /\ running = TRUE

Goto(t, l) == pc' = [pc EXCEPT ![t] = l]

\* The handler returns value v: its locals are dead
Return(h, v) ==
    /\ Goto(h, "idle")
    /\ cid' = [cid EXCEPT ![h] = NoContent]
    /\ handled' = [handled EXCEPT ![h] = v]

\* The shared fields of the pipeline but the guard; the rest of the state
pipe == <<current_content, player_process, file, proc, nprocs>>
rest == <<xdotool, net, env>>
others == <<xdotool, net, lim, deletes, running, su>>

\* An assignment event for c is received
Received(c) == first' = IF events = 0 THEN c ELSE first

\* ------------------------------------------------------ transport events
\* check_for_updates, lines 213-222: the poll thread's query returned
\* current_content = c; the handler is called only if c differs from the guard
CheckForUpdates(c) ==
    /\ pc[Poll] = "idle"
    /\ events < lim.events
    /\ events' = events + 1
    /\ IF c # last_handled_content_id
         THEN /\ Goto(Poll, "h_guard")
              /\ cid' = [cid EXCEPT ![Poll] = c]
              /\ handled' = [handled EXCEPT ![Poll] = "none"]
         ELSE UNCHANGED <<pc, cid, handled>>
    /\ Received(c)
    /\ UNCHANGED <<last_handled_content_id, pipe, others, ret, mproc, outcome, resetSleep,
                   resetArmed, infoReqs, dlAttempts, sent, cbCnt, resetFired>>

\* on_content_assigned: a content_assigned event for c arrived on the socket
OnContentAssigned(c) ==
    /\ pc[Push] = "idle"
    /\ events < lim.events
    /\ events' = events + 1
    /\ Goto(Push, "h_guard")
    /\ cid' = [cid EXCEPT ![Push] = c]
    /\ handled' = [handled EXCEPT ![Push] = "none"]
    /\ Received(c)
    /\ UNCHANGED <<last_handled_content_id, pipe, others, ret, mproc, outcome, resetSleep,
                   resetArmed, infoReqs, dlAttempts, sent, cbCnt, resetFired>>

\* ------------------------------- ServerConnection._handle_content_update
\* A handler that lost the duplicate test
IsDuplicate_Never(h) == FALSE

\* A test that turns every assignment away while any content is being handled
IsDuplicate_WhileBusy(h) == last_handled_content_id # NoContent

\* line 238: is this content the one being handled already?
IsDuplicate(h) == cid[h] = last_handled_content_id

\* lines 238-240: the duplicate test against _last_handled_content_id
HandleGuardTest(h) ==
    /\ pc[h] = "h_guard"
    /\ IF IsDuplicate(h)
         THEN Return(h, "True")
         ELSE Goto(h, "h_set") /\ UNCHANGED <<cid, handled>>
    /\ UNCHANGED <<last_handled_content_id, pipe, rest, ret, mproc, outcome, resetSleep,
                   resetArmed, hist>>

\* line 243: self._last_handled_content_id = content_id
HandleGuardSet(h) ==
    /\ pc[h] = "h_set"
    /\ last_handled_content_id' = cid[h]
    /\ Goto(h, "h_info")
    /\ UNCHANGED <<current_content, player_process, file, proc, nprocs, xdotool, net, ctl,
                   cid, ret, mproc, outcome, resetSleep, resetArmed, hist>>

\* lines 246-252 and 290-295: GET /api/content/{id}; a non-200 answer (line
\* 249) and an exception (line 277) both clear the guard and return False.
\* With the content info, ensure_content_downloaded looks the file up.
HandleContentInfo(h) ==
    /\ pc[h] = "h_info"
    /\ infoReqs' = [infoReqs EXCEPT ![cid[h]] = @ + 1]
    /\ \E ok \in BOOLEAN :
         IF ok
           THEN /\ Goto(h, IF Exists(cid[h]) THEN "cb_check" ELSE "h_dl_req")
                /\ UNCHANGED <<last_handled_content_id, cid, handled>>
           ELSE /\ last_handled_content_id' = NoContent
                /\ Return(h, "False")
    /\ UNCHANGED <<pipe, rest,
                   ret, mproc, outcome, resetSleep, resetArmed,
                   events, dlAttempts, sent, cbCnt, resetFired>>

\* A handler that goes on to the content callback after a failed download
DownloadFailed_CallsBack(h) ==
    /\ Goto(h, "cb_check")
    /\ UNCHANGED <<cid, last_handled_content_id, handled>>

\* A handler that reports a failed download as handled
DownloadFailed_ReturnsTrue(h) ==
    /\ Return(h, "True")
    /\ last_handled_content_id' = last_handled_content_id

\* What _handle_content_update does when ensure_content_downloaded returned
\* None (lines 256-257): it returns False and leaves the guard as it is
DownloadFailed(h) ==
    /\ Return(h, "False")
    /\ last_handled_content_id' = last_handled_content_id

\* ensure_content_downloaded, lines 298-310: the download request.  A non-200
\* answer or an exception returns None; a 200 answer opens the file for writing
EnsureRequest(h) ==
    /\ pc[h] = "h_dl_req"
    /\ dlAttempts' = [dlAttempts EXCEPT ![cid[h]] = @ + 1]
    /\ \E ok \in BOOLEAN :
         IF ok
           THEN /\ file' = [file EXCEPT ![cid[h]] = "partial"]
                /\ Goto(h, "h_dl_write")
                /\ UNCHANGED <<last_handled_content_id, cid, handled>>
           ELSE /\ DownloadFailed(h)
                /\ file' = file
    /\ UNCHANGED <<current_content, player_process, proc, nprocs, rest,
                   ret, mproc, outcome, resetSleep, resetArmed,
                   events, infoReqs, sent, cbCnt, resetFired>>

\* ensure_content_downloaded, lines 310-318: the chunks are written; an
\* exception part-way returns None and leaves what was written
EnsureWrite(h) ==
    /\ pc[h] = "h_dl_write"
    /\ \E ok \in BOOLEAN :
         IF ok
           THEN /\ file' = [file EXCEPT ![cid[h]] = "complete"]
                /\ Goto(h, "cb_check")
                /\ UNCHANGED <<last_handled_content_id, cid, handled>>
           ELSE /\ DownloadFailed(h)
                /\ file' = file
    /\ UNCHANGED <<current_content, player_process, proc, nprocs, rest,
                   ret, mproc, outcome, resetSleep, resetArmed,
                   events, infoReqs, dlAttempts, sent, cbCnt, resetFired>>

\* lines 263-274: the callback has returned (its result is not looked at);
\* the reset thread is started and the handler returns True
HandleSpawnReset(h) ==
    /\ pc[h] = "h_reset"
    /\ resetSleep' = [resetSleep EXCEPT ![cid[h]] = @ + 1]
    /\ Return(h, "True")
    /\ outcome' = [outcome EXCEPT ![h] = "none"]
    /\ UNCHANGED <<last_handled_content_id, pipe, rest, ret, mproc, resetArmed, hist>>

\* reset_handled_id, lines 265-266: the sleep ends and the guard is tested
ResetTest(c) ==
    /\ resetSleep[c] > 0
    /\ resetSleep' = [resetSleep EXCEPT ![c] = @ - 1]
    /\ resetArmed' = [resetArmed EXCEPT ![c] = IF last_handled_content_id = c THEN @ + 1 ELSE @]
    /\ resetFired' = TRUE
    /\ UNCHANGED <<shared, pc, cid, ret, mproc, outcome,
                   events, infoReqs, dlAttempts, sent, cbCnt>>

\* reset_handled_id, line 267: self._last_handled_content_id = None
ResetClear(c) ==
    /\ resetArmed[c] > 0
    /\ resetArmed' = [resetArmed EXCEPT ![c] = @ - 1]
    /\ last_handled_content_id' = NoContent
    /\ UNCHANGED <<current_content, player_process, file, proc, nprocs, xdotool, net, ctl,
                   pc, cid, ret, mproc, outcome, resetSleep, hist>>

\* ---------------------------------------------------- MediaPlayer.stop
\* A process ended by stop(): terminate(), kill() or the window kill
Killed(p) == [proc EXCEPT ![p].st = "exited", ![p].code = KilledCode, ![p].by = "stop"]
KillIfRunning(p) == IF p # NoProc /\ proc[p].st = "running" THEN Killed(p) ELSE proc

\* stop() returns to its caller
StopReturn(t) ==
    /\ Goto(t, ret[t])
    /\ ret' = [ret EXCEPT ![t] = "idle"]

\* A stop() that takes a process to be tracked in any case
NothingTracked_Never == FALSE

\* line 316: if not self.player_process
NothingTracked == player_process = NoProc

\* lines 316-317 and 323, 332: nothing tracked: return; else pick the path
StopTest(t) ==
    /\ pc[t] = "st_check"
    /\ IF NothingTracked
         THEN StopReturn(t)
         ELSE Goto(t, IF xdotool THEN "st_xkill" ELSE "st_term") /\ ret' = ret
    /\ UNCHANGED <<shared, cid, mproc, outcome, resetSleep, resetArmed, hist>>

\* lines 325, 338: self.player_process.terminate(); the field is read again,
\* and None by now raises AttributeError into the except clause
StopTerminate(t) ==
    /\ pc[t] = "st_term"
    /\ IF player_process = NoProc
         THEN /\ Goto(t, "st_final")
              /\ proc' = proc
         ELSE /\ Goto(t, "st_wait")
              /\ proc' = KillIfRunning(player_process)
    /\ UNCHANGED <<last_handled_content_id, current_content, player_process, file, nprocs, xdotool, net, ctl,
                   cid, ret, mproc, outcome, resetSleep, resetArmed, hist>>

\* lines 327, 340: self.player_process.wait(timeout=2) on whatever the field
\* holds now; a process still running there makes the wait time out
StopWait(t) ==
    /\ pc[t] = "st_wait"
    /\ IF player_process # NoProc /\ proc[player_process].st = "running"
         THEN Goto(t, "st_kill")
         ELSE Goto(t, "st_final")
    /\ UNCHANGED <<shared, cid, ret, mproc, outcome, resetSleep, resetArmed, hist>>

\* lines 329, 342: self.player_process.kill()
StopKill(t) ==
    /\ pc[t] = "st_kill"
    /\ proc' = KillIfRunning(player_process)
    /\ Goto(t, "st_final")
    /\ UNCHANGED <<last_handled_content_id, current_content, player_process, file, nprocs, xdotool, net, ctl,
                   cid, ret, mproc, outcome, resetSleep, resetArmed, hist>>

\* lines 332-335: xdotool search --name LEDWallPlayer windowkill: the first
\* window the search finds, of whichever player owns it, or none
StopWindowKill(t) ==
    /\ pc[t] = "st_xkill"
    /\ \E v \in Alive \cup {NoProc} : proc' = KillIfRunning(v)
    /\ Goto(t, "st_final")
    /\ UNCHANGED <<last_handled_content_id, current_content, player_process, file, nprocs, xdotool, net, ctl,
                   cid, ret, mproc, outcome, resetSleep, resetArmed, hist>>

\* lines 345-346: finally: self.player_process = None
StopFinally(t) ==
    /\ pc[t] = "st_final"
    /\ player_process' = NoProc
    /\ StopReturn(t)
    /\ UNCHANGED <<last_handled_content_id, current_content, file, proc, nprocs, xdotool, net, ctl,
                   cid, mproc, outcome, resetSleep, resetArmed, hist>>

\* ---------------------------------------------------- MediaPlayer.play
\* A handler that takes every play() for a success
AfterPlay_IgnoreFailure(success) == "cb_setcur"

\* main.py line 106: where handle_content_update goes with play()'s result
AfterPlay(success) == IF success THEN "cb_setcur" ELSE "cb_err"

\* Where play() returns to: handle_content_update tests the result;
\* handle_playback_ended drops it (main.py lines 141-145) and returns, which
\* ends the monitor thread
PlayReturn(t, success) ==
    IF t \in Handlers
      THEN /\ Goto(t, AfterPlay(success))
           /\ UNCHANGED <<cid, mproc>>
      ELSE /\ Goto(t, "done")
           /\ cid' = [cid EXCEPT ![t] = NoContent]
           /\ mproc' = [mproc EXCEPT ![t] = NoProc]

\* play(), lines 44-48 and 77: ffplay missing returns False; else stop() is
\* entered
PlayEnter(t) ==
    \E avail \in BOOLEAN :
      IF avail
        THEN /\ Goto(t, "st_check")
             /\ ret' = [ret EXCEPT ![t] = "p_popen"]
             /\ UNCHANGED <<cid, mproc>>
        ELSE /\ PlayReturn(t, FALSE)
             /\ ret' = ret

\* lines 80-118: Popen, the store into player_process and the start of the
\* monitor thread; an exception (lines 119-121) returns False
PlaySpawn(t) ==
    /\ pc[t] = "p_popen"
    /\ \/ /\ nprocs < lim.procs
          /\ LET p == nprocs + 1 IN
               /\ nprocs' = p
               /\ proc' = [proc EXCEPT ![p] = [st |-> "running", content |-> cid[t],
                                               code |-> 0, by |-> "none"]]
               /\ player_process' = p
               /\ pc' = [pc EXCEPT ![p] = "m_start",
                                   ![t] = IF t \in Handlers THEN AfterPlay(TRUE) ELSE "done"]
               /\ cid' = [cid EXCEPT ![p] = cid[t],
                                     ![t] = IF t \in Handlers THEN @ ELSE NoContent]
               /\ mproc' = [m \in Monitors |-> IF m = t THEN NoProc ELSE mproc[m]]
       \/ /\ PlayReturn(t, FALSE)
          /\ UNCHANGED <<nprocs, proc, player_process>>
    /\ UNCHANGED <<last_handled_content_id, current_content, file, xdotool, net, ctl,
                   ret, outcome, resetSleep, resetArmed, hist>>

\* ------------------------------------- LEDWallClient.handle_content_update
\* A callback that lost the already-playing test
AlreadyPlaying_Never(h) == FALSE

\* line 87: is this content the current one?
AlreadyPlaying(h) == cid[h] = current_content

\* lines 86-92: the already-playing test, then the call of player.stop()
CallbackTest(h) ==
    /\ pc[h] = "cb_check"
    /\ IF AlreadyPlaying(h)
         THEN /\ Goto(h, "h_reset")
              /\ outcome' = [outcome EXCEPT ![h] = "noop"]
              /\ ret' = ret
         ELSE /\ Goto(h, "st_check")
              /\ ret' = [ret EXCEPT ![h] = "cb_exists"]
              /\ outcome' = outcome
    /\ UNCHANGED <<shared, cid, mproc, resetSleep, resetArmed, hist>>

\* lines 95-100: the file is looked up again, and play() is called
CallbackExists(h) ==
    /\ pc[h] = "cb_exists"
    /\ IF Exists(cid[h])
         THEN /\ PlayEnter(h)
              /\ outcome' = outcome
         ELSE /\ Goto(h, "h_reset")
              /\ outcome' = [outcome EXCEPT ![h] = "no_file"]
              /\ UNCHANGED <<cid, ret, mproc>>
    /\ UNCHANGED <<shared, resetSleep, resetArmed, hist>>

\* lines 106-108: self.current_content = content_id
CallbackSetCurrent(h) ==
    /\ pc[h] = "cb_setcur"
    /\ current_content' = cid[h]
    /\ Goto(h, "cb_status")
    /\ UNCHANGED <<last_handled_content_id, player_process, file, proc, nprocs, xdotool, net, ctl,
                   cid, ret, mproc, outcome, resetSleep, resetArmed, hist>>

\* lines 110-111: send_status_update('playing', content_id)
CallbackPlaying(h) ==
    /\ pc[h] = "cb_status"
    /\ sent' = [sent EXCEPT !["playing"][cid[h]] = @ + 1]
    /\ Goto(h, "h_reset")
    /\ outcome' = [outcome EXCEPT ![h] = "played"]
    /\ UNCHANGED <<shared, cid, ret, mproc, resetSleep, resetArmed,
                   events, infoReqs, dlAttempts, cbCnt, resetFired>>

\* lines 112-116: play() returned False: an 'error' status, nothing else
CallbackError(h) ==
    /\ pc[h] = "cb_err"
    /\ sent' = [sent EXCEPT !["error"][cid[h]] = @ + 1]
    /\ Goto(h, "h_reset")
    /\ outcome' = [outcome EXCEPT ![h] = "play_fail"]
    /\ UNCHANGED <<shared, cid, ret, mproc, resetSleep, resetArmed,
                   events, infoReqs, dlAttempts, cbCnt, resetFired>>

\* ------------------------------------------- MediaPlayer._monitor_playback
\* The monitor thread ends
MonitorDone(m) ==
    /\ Goto(m, "done")
    /\ cid' = [cid EXCEPT ![m] = NoContent]
    /\ mproc' = [mproc EXCEPT ![m] = NoProc]

\* lines 291-295: process = self.player_process, read when the thread runs
MonitorStart(m) ==
    /\ pc[m] = "m_start"
    /\ IF player_process = NoProc
         THEN MonitorDone(m)
         ELSE /\ Goto(m, "m_wait")
              /\ mproc' = [mproc EXCEPT ![m] = player_process]
              /\ cid' = cid
    /\ UNCHANGED <<shared, ret, outcome, resetSleep, resetArmed, hist>>

\* A monitor that reports every exit
StillTracked_Always(m) == TRUE

\* line 303: is the process waited for still the tracked one?
StillTracked(m) == mproc[m] = player_process

\* lines 299-310: wait() returned; the callback runs only if the process is
\* still the tracked one
MonitorExit(m) ==
    /\ pc[m] = "m_wait"
    /\ proc[mproc[m]].st = "exited"
    /\ IF StillTracked(m)
         THEN /\ Goto(m, "pe_check")
              /\ cbCnt' = [cbCnt EXCEPT ![mproc[m]][cid[m]] = @ + 1]
              /\ UNCHANGED <<cid, mproc>>
         ELSE /\ MonitorDone(m)
              /\ cbCnt' = cbCnt
    /\ UNCHANGED <<shared, ret, outcome, resetSleep, resetArmed,
                   events, infoReqs, dlAttempts, sent, resetFired>>

\* ------------------------------------- LEDWallClient.handle_playback_ended
\* An end-of-playback handler that lost the stale test
IsStale_Never(m) == FALSE

\* line 128: has the content been superseded?
IsStale(m) == cid[m] # current_content

\* An end-of-playback handler that takes every exit for a crash
CleanExit_Never(m) == FALSE

\* An end-of-playback handler that takes every exit for a clean one
CleanExit_Always(m) == TRUE

\* line 132: exit_code != 0 is the crash branch, exit_code == 0 the clean one
CleanExit(m) == proc[mproc[m]].code = 0

\* lines 125-135, 150-153: the stale test, then the branch on the exit code;
\* a clean exit sends 'stopped'
EndedTest(m) ==
    /\ pc[m] = "pe_check"
    /\ IF IsStale(m)
         THEN /\ MonitorDone(m)
              /\ sent' = sent
         ELSE IF ~CleanExit(m)
                THEN /\ Goto(m, "pe_exists")
                     /\ UNCHANGED <<cid, mproc, sent>>
                ELSE /\ Goto(m, "pe_clear")
                     /\ sent' = [sent EXCEPT !["stopped"][cid[m]] = @ + 1]
                     /\ UNCHANGED <<cid, mproc>>
    /\ UNCHANGED <<shared, ret, outcome, resetSleep, resetArmed,
                   events, infoReqs, dlAttempts, cbCnt, resetFired>>

\* lines 135-147: after the sleep the file is looked up; play() if present
EndedRestart(m) ==
    /\ pc[m] = "pe_exists"
    /\ IF Exists(cid[m])
         THEN PlayEnter(m)
         ELSE Goto(m, "pe_clear") /\ UNCHANGED <<cid, ret, mproc>>
    /\ UNCHANGED <<shared, outcome, resetSleep, resetArmed, hist>>

\* lines 149, 155: self.current_content = None
EndedClear(m) ==
    /\ pc[m] = "pe_clear"
    /\ current_content' = NoContent
    /\ MonitorDone(m)
    /\ UNCHANGED <<last_handled_content_id, player_process, file, proc, nprocs, xdotool, net, ctl,
                   ret, outcome, resetSleep, resetArmed, hist>>

\* ------------------------------------------------------------ environment
\* The player process ends by itself: ffplay quits (0) or crashes (nonzero)
PlayerExits(p, code) ==
    /\ proc[p].st = "running"
    /\ proc' = [proc EXCEPT ![p].st = "exited", ![p].code = code, ![p].by = "self"]
    /\ UNCHANGED <<last_handled_content_id, current_content, player_process, file, nprocs, xdotool, net, ctl,
                   locals, hist>>

\* --------------------------------------------------------- specification
\* The steps of _handle_content_update and of the content callback
HandlerSteps ==
    \/ \E h \in Handlers : HandleGuardTest(h)
    \/ \E h \in Handlers : HandleGuardSet(h)
    \/ \E h \in Handlers : HandleContentInfo(h)
    \/ \E h \in Handlers : EnsureRequest(h)
    \/ \E h \in Handlers : EnsureWrite(h)
    \/ \E h \in Handlers : HandleSpawnReset(h)
    \/ \E c \in Contents : ResetTest(c)
    \/ \E c \in Contents : ResetClear(c)
    \/ \E h \in Handlers : CallbackTest(h)
    \/ \E h \in Handlers : CallbackExists(h)
    \/ \E h \in Handlers : CallbackSetCurrent(h)
    \/ \E h \in Handlers : CallbackPlaying(h)
    \/ \E h \in Handlers : CallbackError(h)

\* The steps of play(), of the monitor threads and of the players
PlayerSteps ==
    \/ \E t \in Threads : StopTest(t)
    \/ \E t \in Threads : StopFinally(t)
    \/ \E t \in Threads : PlaySpawn(t)
    \/ \E m \in Monitors : MonitorStart(m)
    \/ \E m \in Monitors : MonitorExit(m)
    \/ \E m \in Monitors : EndedTest(m)
    \/ \E m \in Monitors : EndedRestart(m)
    \/ \E m \in Monitors : EndedClear(m)
    \/ \E p \in Procs, code \in ExitCodes : PlayerExits(p, code)

\* stop() by terminate(), wait(timeout=2), kill()
TerminateSteps ==
    \/ \E t \in Threads : StopTerminate(t)
    \/ \E t \in Threads : StopWait(t)
    \/ \E t \in Threads : StopKill(t)

Next ==
    \/ \E c \in Contents : CheckForUpdates(c)
    \/ \E c \in Contents : OnContentAssigned(c)
    \/ HandlerSteps
    \/ PlayerSteps
    \/ TerminateSteps

Spec == Init /\ [][Next]_vars

\* ------------------------------------------- the Raspberry Pi with xdotool
\* stop() takes the window-kill branch (player.py lines 332-335)
InitPi ==
    /\ InitCommon
    /\ xdotool = TRUE
    /\ PushUp
    /\ lim = [procs |-> MaxProcs, events |-> MaxEvents]
    /\ deletes = 0
    /\ running = TRUE

NextPi ==
    \/ \E c \in Contents : CheckForUpdates(c)
    \/ \E c \in Contents : OnContentAssigned(c)
    \/ HandlerSteps
    \/ PlayerSteps
    \/ \E t \in Threads : StopWindowKill(t)

SpecPi == InitPi /\ [][NextPi]_vars

\* ------------------------------------------- the grace window to its end
\* The steps of the reset threads (reset_handled_id, lines 264-267)
ResetSteps ==
    \/ \E c \in Contents : ResetTest(c)
    \/ \E c \in Contents : ResetClear(c)

\* Every thread that can take a step is scheduled in the end: a reset thread
\* wakes up from its two seconds' sleep, a handler, a monitor or a stop()
\* goes on.  Nothing is assumed of the server's events nor of the players.
FairSpec ==
    /\ Spec
    /\ WF_vars(ResetSteps)
    /\ WF_vars(HandlerSteps)
    /\ WF_vars(\E t \in Threads : StopTest(t) \/ StopFinally(t) \/ PlaySpawn(t))
    /\ WF_vars(TerminateSteps)

\* ------------------------------------------------- the poll channel alone
\* Someone removes a media file from downloads/ (the client never does)
DeleteFile(c) ==
    /\ deletes < MaxDeletes
    /\ file[c] # "absent"
    /\ file' = [file EXCEPT ![c] = "absent"]
    /\ deletes' = deletes + 1
    /\ UNCHANGED <<last_handled_content_id, current_content, player_process, proc, nprocs,
                   xdotool, net, lim, running, su, handled, first, locals, hist>>

\* The transport fields when the socketio package is missing: connect() has
\* started the poll loop (network.py lines 87-91) and no socket exists
PollOnly ==
    /\ client_id = TRUE
    /\ socket = FALSE
    /\ socket_connected = FALSE
    /\ polling_active = TRUE
    /\ loops = 1
    /\ link = "down"
    /\ registers = 0
    /\ queries = 0

InitSolo ==
    /\ InitCommon
    /\ xdotool = FALSE
    /\ PollOnly
    /\ lim = [procs |-> SoloProcs, events |-> SoloEvents]
    /\ deletes = 0
    /\ running = TRUE

NextSolo ==
    \/ \E c \in Contents : CheckForUpdates(c)
    \/ HandlerSteps
    \/ PlayerSteps
    \/ TerminateSteps
    \/ \E c \in Contents : DeleteFile(c)

SpecSolo == InitSolo /\ [][NextSolo]_vars

\* ------------------------------------------------------------- shutdown
\* check_for_updates as a round of _polling_loop (network.py line 196): the
\* loop goes round only while _polling_active is set
PollRound(c) ==
    /\ polling_active
    /\ CheckForUpdates(c)

\* handle_exit_signal, main.py lines 67-72: SIGINT or SIGTERM interrupts the
\* main loop; running = False, then cleanup() begins with player.stop()
HandleExitSignal ==
    /\ pc[Main] = "idle"
    /\ running
    /\ running' = FALSE
    /\ Goto(Main, "st_check")
    /\ ret' = [ret EXCEPT ![Main] = "cl_disc"]
    /\ UNCHANGED <<last_handled_content_id, current_content, player_process, file, proc,
                   nprocs, xdotool, net, lim, deletes, su, handled, first,
                   cid, mproc, outcome, resetSleep, resetArmed, hist>>

\* disconnect(), network.py lines 119-123: a connected socket is asked to
\* disconnect
CleanupDisconnect ==
    /\ pc[Main] \in {"cl_disc", "fin_disc"}
    /\ link' = IF socket /\ socket_connected THEN "down" ELSE link
    /\ Goto(Main, IF pc[Main] = "cl_disc" THEN "cl_poll" ELSE "fin_poll")
    /\ UNCHANGED <<last_handled_content_id, current_content, player_process, file, proc,
                   nprocs, xdotool, client_id, socket, socket_connected, polling_active,
                   loops, registers, queries, ctl,
                   cid, ret, mproc, outcome, resetSleep, resetArmed, hist>>

\* disconnect(), line 126: self._polling_active = False; cleanup() returns
CleanupStopPolling ==
    /\ pc[Main] \in {"cl_poll", "fin_poll"}
    /\ polling_active' = FALSE
    /\ Goto(Main, IF pc[Main] = "cl_poll" THEN "cl_done" ELSE "fin_done")
    /\ UNCHANGED <<last_handled_content_id, current_content, player_process, file, proc,
                   nprocs, xdotool, client_id, socket, socket_connected,
                   loops, link, registers, queries, ctl,
                   cid, ret, mproc, outcome, resetSleep, resetArmed, hist>>

\* main.py line 72 and lines 188-189: sys.exit(0) raises SystemExit in the
\* main thread, and run()'s finally clause calls cleanup() once more
SysExit ==
    /\ pc[Main] = "cl_done"
    /\ Goto(Main, "st_check")
    /\ ret' = [ret EXCEPT ![Main] = "fin_disc"]
    /\ UNCHANGED <<shared, cid, mproc, outcome, resetSleep, resetArmed, hist>>

\* The interpreter exits: the daemon threads end with it, the player
\* processes (started in their own session) do not
ProcessExit ==
    /\ pc[Main] = "fin_done"
    /\ pc' = [t \in Threads |-> IF t = Main THEN "exited" ELSE "killed"]
    /\ cid' = [t \in Threads |-> NoContent]
    /\ ret' = [t \in Threads |-> "idle"]
    /\ mproc' = [m \in Monitors |-> NoProc]
    /\ outcome' = [h \in Handlers |-> "none"]
    /\ resetSleep' = [c \in Contents |-> 0]
    /\ resetArmed' = [c \in Contents |-> 0]
    /\ loops' = 0
    /\ UNCHANGED <<last_handled_content_id, current_content, player_process, file, proc,
                   nprocs, xdotool, client_id, socket, socket_connected, polling_active,
                   link, registers, queries, ctl, hist>>

\* The first cleanup() has returned
CleanupCompleted ==
    \/ pc[Main] \in {"cl_done", "fin_disc", "fin_poll", "fin_done", "exited"}
    \/ ret[Main] = "fin_disc"

InitExit ==
    /\ InitCommon
    /\ xdotool = FALSE
    /\ PollOnly
    /\ lim = [procs |-> MaxProcs, events |-> ExitEvents]
    /\ deletes = 0
    /\ running = TRUE

NextExit ==
    \/ \E c \in Contents : PollRound(c)
    \/ HandlerSteps
    \/ PlayerSteps
    \/ TerminateSteps
    \/ HandleExitSignal
    \/ CleanupDisconnect
    \/ CleanupStopPolling
    \/ SysExit
    \/ ProcessExit

SpecExit == InitExit /\ [][NextExit]_vars

\* ------------------------------------------------------------ transport
\* run(), main.py lines 170-174, and register(): a stored client id skips the
\* registration; a failed registration ends run()
AfterRegister(ok) == IF ok THEN "conn" ELSE "exited"

Register ==
    /\ pc[Main] = "start"
    /\ IF client_id
         THEN Goto(Main, "conn") /\ client_id' = client_id
         ELSE \E ok \in BOOLEAN :
                /\ client_id' = ok
                /\ Goto(Main, AfterRegister(ok))
    /\ UNCHANGED <<last_handled_content_id, current_content, player_process, file, proc,
                   nprocs, xdotool, socket, socket_connected, polling_active,
                   loops, link, registers, queries, ctl,
                   cid, ret, mproc, outcome, resetSleep, resetArmed, hist>>

\* A _start_polling that never starts anything
StartPolling_Never(t) == Goto(t, "idle")

\* _start_polling, lines 185-186, entered by thread t: nothing to do when the
\* flag is set
StartPolling(t) == Goto(t, IF polling_active THEN "idle" ELSE "sp_set")

\* connect(), lines 76-91: without the socketio package polling is started;
\* else the client is created and socket.connect() is called
ConnectCall ==
    /\ pc[Main] = "conn"
    /\ \E imported \in BOOLEAN :
         IF imported
           THEN socket' = TRUE /\ Goto(Main, "conn_wait")
           ELSE socket' = socket /\ StartPolling(Main)
    /\ UNCHANGED <<last_handled_content_id, current_content, player_process, file, proc,
                   nprocs, xdotool, client_id, socket_connected, polling_active,
                   loops, link, registers, queries, ctl,
                   cid, ret, mproc, outcome, resetSleep, resetArmed, hist>>

\* connect(), lines 85-96: socket.connect() returns once the connection is
\* made, or raises, and then polling is started
ConnectReturn ==
    /\ pc[Main] = "conn_wait"
    /\ \/ link # "down" /\ link # "err_new" /\ Goto(Main, "idle")
       \/ link \in {"down", "err_new", "down_new"} /\ StartPolling(Main)
    /\ UNCHANGED <<shared, cid, ret, mproc, outcome, resetSleep, resetArmed, hist>>

\* The main loop, main.py lines 182-185, and reconnect(), lines 100-104 and
\* 111-113: not connected; with a socket, socket.connect() is called, and it
\* raises at once if the library holds a connection already; without a
\* socket, polling is started unless it is active
MainLoopReconnect ==
    /\ pc[Main] = "idle"
    /\ running
    /\ ~socket_connected
    /\ IF socket
         THEN Goto(Main, IF link \in {"up_new", "up"} THEN "re_exc" ELSE "re_wait")
         ELSE ~polling_active /\ StartPolling(Main)
    /\ UNCHANGED <<shared, cid, ret, mproc, outcome, resetSleep, resetArmed, hist>>

\* reconnect(), lines 104-110: socket.connect() returns once the connection
\* is made, or raises, and then polling is started unless it is active
ReconnectReturn ==
    /\ pc[Main] = "re_wait"
    /\ \/ link # "down" /\ link # "err_new" /\ Goto(Main, "idle")
       \/ link \in {"down", "err_new", "down_new"} /\ StartPolling(Main)
    /\ UNCHANGED <<shared, cid, ret, mproc, outcome, resetSleep, resetArmed, hist>>

\* reconnect(), lines 106-110: the except clause after socket.connect() has
\* raised at once: polling is started unless it is active
ReconnectFailed ==
    /\ pc[Main] = "re_exc"
    /\ StartPolling(Main)
    /\ UNCHANGED <<shared, cid, ret, mproc, outcome, resetSleep, resetArmed, hist>>

\* _start_polling, lines 188-191: the flag is set and a loop thread started
StartPollingSet(t) ==
    /\ pc[t] = "sp_set"
    /\ polling_active' = TRUE
    /\ loops' = loops + 1
    /\ Goto(t, "idle")
    /\ UNCHANGED <<last_handled_content_id, current_content, player_process, file, proc,
                   nprocs, xdotool, client_id, socket, socket_connected,
                   link, registers, queries, ctl,
                   cid, ret, mproc, outcome, resetSleep, resetArmed, hist>>

\* A library that connects although no client object was ever created
Connecting_Unasked == link = "down"

\* The library is trying to connect: inside a socket.connect() call, or on its
\* own after an established connection was lost
Connecting == socket /\ link = "down" /\ (pc[Main] \in {"conn_wait", "re_wait"} \/ registers >= 1)

\* The connection is made; the 'connect' event is due
LinkUp ==
    /\ Connecting
    /\ registers < MaxConnects
    /\ link' = "up_new"
    /\ UNCHANGED <<last_handled_content_id, current_content, player_process, file, proc,
                   nprocs, xdotool, client_id, socket, socket_connected, polling_active,
                   loops, registers, queries, ctl, locals, hist>>

\* An attempt fails; the 'connect_error' event is due
LinkFail ==
    /\ Connecting
    /\ link' = "err_new"
    /\ UNCHANGED <<last_handled_content_id, current_content, player_process, file, proc,
                   nprocs, xdotool, client_id, socket, socket_connected, polling_active,
                   loops, registers, queries, ctl, locals, hist>>

\* The connection is lost; the 'disconnect' event is due
LinkDrop ==
    /\ link = "up"
    /\ link' = "down_new"
    /\ UNCHANGED <<last_handled_content_id, current_content, player_process, file, proc,
                   nprocs, xdotool, client_id, socket, socket_connected, polling_active,
                   loops, registers, queries, ctl, locals, hist>>

\* The connect handler, lines 141-146: socket_connected = True and the
\* 'register' event with client_id
OnConnect ==
    /\ pc[Push] = "idle"
    /\ link = "up_new"
    /\ link' = "up"
    /\ socket_connected' = TRUE
    /\ registers' = registers + 1
    /\ Goto(Push, "on_conn2")
    /\ UNCHANGED <<last_handled_content_id, current_content, player_process, file, proc,
                   nprocs, xdotool, client_id, socket, polling_active, loops, queries, ctl,
                   cid, ret, mproc, outcome, resetSleep, resetArmed, hist>>

\* A connect handler that leaves the polling flag alone
ConnectStopPolling_Skips ==
    /\ pc[Push] = "on_conn2"
    /\ Goto(Push, "idle")
    /\ UNCHANGED <<shared, cid, ret, mproc, outcome, resetSleep, resetArmed, hist>>

\* The connect handler, line 149: self._polling_active = False
ConnectStopPolling ==
    /\ pc[Push] = "on_conn2"
    /\ polling_active' = FALSE
    /\ Goto(Push, "idle")
    /\ UNCHANGED <<last_handled_content_id, current_content, player_process, file, proc,
                   nprocs, xdotool, client_id, socket, socket_connected,
                   loops, link, registers, queries, ctl,
                   cid, ret, mproc, outcome, resetSleep, resetArmed, hist>>

\* The connect_error and disconnect handlers, lines 151-167:
\* socket_connected = False, then polling is started unless it is active
OnPushLost(event) ==
    /\ pc[Push] = "idle"
    /\ link = event
    /\ link' = "down"
    /\ socket_connected' = FALSE
    /\ StartPolling(Push)
    /\ UNCHANGED <<last_handled_content_id, current_content, player_process, file, proc,
                   nprocs, xdotool, client_id, socket, polling_active,
                   loops, registers, queries, ctl,
                   cid, ret, mproc, outcome, resetSleep, resetArmed, hist>>

\* The events that report the push channel as lost
LostEvents == {"err_new", "down_new"}

\* _polling_loop, lines 196-203, and check_for_updates when the server has no
\* content assigned: the flag is tested, the status query made, then the sleep
LoopRound ==
    /\ loops >= 1
    /\ polling_active
    /\ queries < MaxQueries
    /\ queries' = queries + 1
    /\ UNCHANGED <<last_handled_content_id, current_content, player_process, file, proc,
                   nprocs, xdotool, client_id, socket, socket_connected, polling_active,
                   loops, link, registers, ctl, locals, hist>>

\* _polling_loop, line 196: the flag is found False and the thread ends
LoopExit ==
    /\ loops >= 1
    /\ ~polling_active
    /\ loops' = loops - 1
    /\ UNCHANGED <<last_handled_content_id, current_content, player_process, file, proc,
                   nprocs, xdotool, client_id, socket, socket_connected, polling_active,
                   link, registers, queries, ctl, locals, hist>>

\* ServerConnection.__init__, lines 31-35, and run() about to start; the
\* client id is stored from an earlier run, or not
InitNet ==
    /\ InitPipeline
    /\ pc = [t \in Threads |-> IF t = Main THEN "start" ELSE "idle"]
    /\ xdotool = FALSE
    /\ client_id \in BOOLEAN
    /\ socket = FALSE
    /\ socket_connected = FALSE
    /\ polling_active = FALSE
    /\ loops = 0
    /\ link = "down"
    /\ registers = 0
    /\ queries = 0
    /\ lim = [procs |-> 0, events |-> 0]
    /\ deletes = 0
    /\ running = TRUE

MainSteps ==
    \/ Register
    \/ ConnectCall
    \/ ConnectReturn
    \/ MainLoopReconnect
    \/ ReconnectReturn
    \/ ReconnectFailed
    \/ StartPollingSet(Main)

PushSteps ==
    \/ OnConnect
    \/ ConnectStopPolling
    \/ \E event \in LostEvents : OnPushLost(event)
    \/ StartPollingSet(Push)

LoopSteps ==
    \/ LoopRound
    \/ LoopExit

NextNet ==
    \/ MainSteps
    \/ PushSteps
    \/ LoopSteps
    \/ LinkUp
    \/ LinkFail
    \/ LinkDrop

SpecNet == InitNet /\ [][NextNet]_vars

\* Every thread that can take a step is scheduled in the end: the main loop
\* goes round every second, the library's event thread runs the handler of
\* every event that is due, a poll loop wakes up from its sleep.  Nothing is
\* assumed of the network.
FairSpecNet ==
    /\ SpecNet
    /\ WF_vars(MainSteps)
    /\ WF_vars(PushSteps)
    /\ WF_vars(LoopSteps)

\* connect() has returned (main.py line 177)
ConnectAttempted == pc[Main] \in {"idle", "re_wait", "re_exc"}

\* Polling is on and some loop thread runs
PollingRuns == polling_active /\ loops >= 1

\* ------------------------------------------------------- status reports
\* The thread that reports: a monitor thread in handle_playback_ended
\* (main.py line 153); the handlers' calls (lines 110, 115) are the same code
Reporter == 1

\* The callbacks, and so send_status_update, run only once run() has gone
\* past the registration (main.py lines 171-177)
Registered == pc[Main] \notin {"start", "conn", "exited"}

\* The test of line 342 that always chooses HTTP
PushUsable_Never == FALSE

\* send_status_update, line 342: if self.socket and self.socket_connected
PushUsable == socket /\ socket_connected

\* send_status_update, lines 328-342: without a client id False is returned;
\* else the channel is chosen
SendStatusUpdate ==
    /\ pc[Reporter] = "idle"
    /\ Registered
    /\ su.calls < MaxSends
    /\ IF ~client_id
         THEN /\ su' = [NoSend EXCEPT !.calls = su.calls + 1, !.result = "False"]
              /\ pc' = pc
         ELSE /\ su' = [NoSend EXCEPT !.calls = su.calls + 1]
              /\ Goto(Reporter, IF PushUsable THEN "su_emit" ELSE "su_post")
    /\ UNCHANGED <<last_handled_content_id, current_content, player_process, file, proc,
                   nprocs, xdotool, net, lim, deletes, running, handled, first,
                   cid, ret, mproc, outcome, resetSleep, resetArmed, hist>>

\* send_status_update, lines 343-347: socket.emit returns, which it can do as
\* long as the library has not closed the connection, and True is returned;
\* or it raises, which is logged, and the HTTP fallback follows
StatusEmit ==
    /\ pc[Reporter] = "su_emit"
    /\ \/ /\ link \in {"up_new", "up", "down_new"}
          /\ su' = [su EXCEPT !.emits = @ + 1, !.push = "ok", !.result = "True"]
          /\ Goto(Reporter, "idle")
       \/ /\ su' = [su EXCEPT !.emits = @ + 1, !.push = "raised"]
          /\ Goto(Reporter, "su_post")
    /\ UNCHANGED <<last_handled_content_id, current_content, player_process, file, proc,
                   nprocs, xdotool, net, lim, deletes, running, handled, first,
                   cid, ret, mproc, outcome, resetSleep, resetArmed, hist>>

\* send_status_update, lines 350-358: one requests.post; True is returned
\* for a 200, False for another status or an exception
StatusPost ==
    /\ pc[Reporter] = "su_post"
    /\ \E ok \in BOOLEAN :
         su' = [su EXCEPT !.posts = @ + 1,
                          !.http = IF ok THEN "ok" ELSE "failed",
                          !.result = IF ok THEN "True" ELSE "False"]
    /\ Goto(Reporter, "idle")
    /\ UNCHANGED <<last_handled_content_id, current_content, player_process, file, proc,
                   nprocs, xdotool, net, lim, deletes, running, handled, first,
                   cid, ret, mproc, outcome, resetSleep, resetArmed, hist>>

StatusSteps ==
    \/ SendStatusUpdate
    \/ StatusEmit
    \/ StatusPost

NextStatus ==
    \/ NextNet
    \/ StatusSteps

SpecStatus == InitNet /\ [][NextStatus]_vars

\* ================================================================ claims
Started(c) == {p \in Procs : proc[p].st # "unborn" /\ proc[p].content = c}
Callbacks(p) == cbCnt[p]["A"] + cbCnt[p]["B"]
Steps(t) == pc'[t] # pc[t]          \* the step is one of thread t
PlayerUntouched == UNCHANGED <<player_process, proc, nprocs>>

\* Every event so far named content c
OnlyEventsFor(c) ==
    /\ \A t \in Threads : cid[t] \in {c, NoContent}
    /\ \A d \in Contents \ {c} : infoReqs[d] = 0

\* C1: events for one content only, delivered by the poll thread and the push
\* handler before any reset thread has ended its sleep, starting with no
\* current content and no file, cause one download attempt and one player
\* start, never two.
C1_OneDownloadOneStart ==
    \A c \in Contents :
      (OnlyEventsFor(c) /\ ~resetFired /\ \A p \in Procs : proc[p].st # "exited")
        => (dlAttempts[c] <= 1 /\ nprocs <= 1)

\* C2: when the download fails (ensure_content_downloaded returns None), the
\* handler returns having started no player and with the guard no longer
\* holding its content, so that the next event for it is accepted.
C2_DownloadFailureClearsGuard ==
    [][\A h \in Handlers :
         (pc[h] \in {"h_dl_req", "h_dl_write"} /\ pc'[h] = "idle")
           => (last_handled_content_id' # cid[h] /\ nprocs' = nprocs)]_vars

\* C3: at most one player process is alive in every reachable state.
C3_AtMostOneAlive == Cardinality(Alive) <= 1

\* C4: handle_playback_ended invoked with a content id that differs from
\* current_content returns at once: current_content is unchanged, no player
\* is started or stopped, no status is sent.
C4_StaleEndDiscarded ==
    [][\A m \in Monitors :
         (pc[m] = "pe_check" /\ cid[m] # current_content /\ Steps(m))
           => (pc'[m] = "done" /\ PlayerUntouched
               /\ UNCHANGED <<current_content, sent, last_handled_content_id, file>>)]_vars

C4_Witness ==
    \E m \in Monitors :
      /\ pc[m] = "pe_check"
      /\ cid[m] # current_content
      /\ cbCnt[mproc[m]][cid[m]] > 0

\* C5: the exit of a process that stop() ended is never reported to the
\* end-of-playback callback.
C5_StoppedProcessNotReported ==
    \A p \in Procs : proc[p].by = "stop" => Callbacks(p) = 0

\* C6: no process exit is reported to the callback twice, nor under the
\* content info of another session.
C6_ExitReportedOnceAsItself ==
    \A p \in Procs :
      /\ Callbacks(p) <= 1
      /\ \A c \in Contents : cbCnt[p][c] > 0 => c = proc[p].content

\* C7: whenever play() returns False, for a new assignment or for a restart,
\* an 'error' status is sent and current_content is None afterwards.
C7_StartFailureReportedAndIdle ==
    [][/\ \A h \in Handlers :
            (pc[h] = "cb_err" /\ Steps(h))
              => (sent'["error"][cid[h]] = sent["error"][cid[h]] + 1
                  /\ current_content' = NoContent)
       /\ \A m \in Monitors :
            (pc[m] \in {"pe_exists", "p_popen"} /\ pc'[m] = "done" /\ nprocs' = nprocs)
              => (sent'["error"][cid[m]] = sent["error"][cid[m]] + 1
                  /\ current_content' = NoContent)]_vars

\* C8: an assignment whose content_id equals current_content is a no-op of
\* the callback: the player is neither stopped nor restarted, current_content
\* is unchanged and no status is sent, up to the handler's return.
C8_CurrentContentIsNoOp ==
    [][\A h \in Handlers :
         /\ (pc[h] = "cb_check" /\ cid[h] = current_content /\ Steps(h))
              => (pc'[h] = "h_reset" /\ outcome'[h] = "noop" /\ PlayerUntouched
                  /\ UNCHANGED <<current_content, sent>>)
         /\ (pc[h] = "h_reset" /\ outcome[h] = "noop" /\ Steps(h))
              => (pc'[h] = "idle" /\ PlayerUntouched
                  /\ UNCHANGED <<current_content, sent>>)]_vars

C8_Witness ==
    /\ pc[Push] = "h_reset"
    /\ outcome[Push] = "noop"
    /\ resetFired
    /\ player_process # NoProc
    /\ proc[player_process].st = "running"
    /\ proc[player_process].content = cid[Push]
    /\ current_content = cid[Push]

\* C9: an event for the content the guard holds is skipped: no content-info
\* request, no download, no player start or stop, no status; and the poll
\* thread enters the handler only with a content the guard does not hold.
C9_GuardedEventSkipped ==
    [][/\ \A h \in Handlers :
            (pc[h] = "h_guard" /\ cid[h] = last_handled_content_id /\ Steps(h))
              => (pc'[h] = "idle" /\ PlayerUntouched
                  /\ UNCHANGED <<infoReqs, dlAttempts, sent, current_content,
                                 last_handled_content_id, file, resetSleep>>)
       /\ (pc[Poll] = "idle" /\ pc'[Poll] = "h_guard") => cid'[Poll] # last_handled_content_id]_vars

C9_Witness ==
    /\ pc[Push] = "h_guard"
    /\ cid[Push] = last_handled_content_id
    /\ ~resetFired
    /\ pc[Poll] = "h_reset"
    /\ outcome[Poll] = "played"
    /\ cid[Poll] = cid[Push]
    /\ dlAttempts[cid[Push]] = 1
    /\ nprocs = 1
    /\ sent["playing"][cid[Push]] = 1

\* What holds of a state when the controller starts first, then sets
\* current_content, then reports
StartedBeforeCurrentAndPlaying ==
    /\ current_content # NoContent => Started(current_content) # {}
    /\ \A c \in Contents : sent["playing"][c] <= Cardinality(Started(c))
    /\ \A h \in Handlers :
         pc[h] \in {"cb_setcur", "cb_status"} => Started(cid[h]) # {}
    /\ \A h \in Handlers :
         (pc[h] = "h_reset" /\ outcome[h] = "played") => sent["playing"][cid[h]] >= 1

\* C10: a handler reaches Popen only from a stop() that returned with no
\* process tracked; current_content is set only by a handler whose play()
\* started a player, to that handler's content; 'playing' is sent, once, only
\* by a handler that has set current_content; so current_content names a
\* content, and 'playing' is reported for it, only after a player was started
\* for it.
C10_StopStartCurrentPlaying ==
    /\ []StartedBeforeCurrentAndPlaying
    /\ [][/\ \A h \in Handlers :
               (pc'[h] = "p_popen" /\ Steps(h))
                 => (pc[h] \in {"st_check", "st_final"} /\ player_process' = NoProc)
          /\ \A h \in Handlers :
               (pc'[h] = "cb_setcur" /\ Steps(h))
                 => (pc[h] = "p_popen" /\ nprocs' = nprocs + 1
                     /\ proc'[nprocs'].content = cid[h]
                     /\ proc'[nprocs'].st = "running")
          /\ (current_content' # current_content /\ current_content' # NoContent)
                 => \E h \in Handlers : pc[h] = "cb_setcur" /\ current_content' = cid[h]
          /\ (sent'["playing"] # sent["playing"])
                 => \E h \in Handlers :
                      /\ pc[h] = "cb_status"
                      /\ sent'["playing"] =
                           [sent["playing"] EXCEPT ![cid[h]] = @ + 1]]_vars

C10_Witness ==
    \E h \in Handlers :
      /\ pc[h] = "h_reset"
      /\ outcome[h] = "played"
      /\ current_content = cid[h]
      /\ sent["playing"][cid[h]] = 1
      /\ nprocs = 2
      /\ proc[1].by = "stop"
      /\ proc[1].content # cid[h]
      /\ player_process = 2
      /\ proc[2].st = "running"

\* C11: when the end-of-playback handler finds its content current and the
\* exit code 0, it sends one 'stopped' status for that content and nothing
\* else, then sets current_content to None; neither step starts or touches a
\* player.
C11_CleanExitStopsAndIdles ==
    [][\A m \in Monitors :
         /\ (pc[m] = "pe_check" /\ Steps(m) /\ cid[m] = current_content
                /\ proc[mproc[m]].code = 0)
              => /\ pc'[m] = "pe_clear"
                 /\ sent' = [sent EXCEPT !["stopped"][cid[m]] = @ + 1]
                 /\ PlayerUntouched
                 /\ UNCHANGED <<current_content, ret>>
         /\ (pc[m] = "pe_clear" /\ Steps(m))
              => /\ pc'[m] = "done"
                 /\ current_content' = NoContent
                 /\ sent' = sent
                 /\ PlayerUntouched]_vars

\* A process ended by itself with code 0, its handler has finished: one
\* 'stopped' was sent for its content and nothing is current
C11_Witness ==
    \E p \in Procs :
        /\ proc[p].st = "exited" /\ proc[p].by = "self" /\ proc[p].code = 0
        /\ cbCnt[p][proc[p].content] = 1
        /\ sent["stopped"][proc[p].content] = 1
        /\ current_content = NoContent
        /\ \A m \in Monitors : pc[m] \in {"idle", "done"}

\* C14: a handler whose content-info request or download fails returns
\* without entering the content callback, and that step leaves the player,
\* current_content and the status reports as they are; the callback is entered
\* only with the media file on disk.
C14_FailedFetchLeavesPlayback ==
    [][\A h \in Handlers :
         (pc[h] \in {"h_info", "h_dl_req", "h_dl_write"} /\ Steps(h))
           => /\ pc'[h] = "cb_check" => file'[cid[h]] # "absent"
              /\ (pc[h] = "h_dl_req" /\ file'[cid[h]] = "absent") => pc'[h] = "idle"
              /\ (pc[h] = "h_dl_write" /\ file'[cid[h]] # "complete") => pc'[h] = "idle"
              /\ pc'[h] = "idle"
                   => /\ PlayerUntouched
                      /\ UNCHANGED <<current_content, sent, outcome>>]_vars

\* A is playing and current; the download for B has failed and its handler
\* has returned: A's player still runs, nothing was reported for B
C14_Witness ==
    /\ current_content = "A"
    /\ player_process # NoProc
    /\ proc[player_process].st = "running" /\ proc[player_process].content = "A"
    /\ dlAttempts["B"] = 1 /\ file["B"] = "absent"
    /\ \A h \in Handlers : pc[h] = "idle"
    /\ \A st \in Statuses : sent[st]["B"] = 0

\* C20: when stop() is about to return (it has done its termination branch and
\* no other thread is inside play() or stop()), the process it was called for
\* has exited.
C20_StopEndsTrackedProcess ==
    \A t \in Threads :
        (/\ pc[t] = "st_final"
         /\ player_process # NoProc
         /\ \A u \in Threads \ {t} : pc[u] \in {"idle", "done", "m_wait"})
          => proc[player_process].st = "exited"

\* C12: when the end-of-playback handler finds its content current and the
\* exit code nonzero, it goes on to the file lookup; with the file present it
\* calls play() for the same content, whatever the number of restarts before,
\* and the process that play() starts plays that content.  No step of the
\* handler changes current_content or sends a status.
C12_CrashRestartsSameContent ==
    [][\A m \in Monitors :
         /\ (pc[m] = "pe_check" /\ Steps(m) /\ cid[m] = current_content
                /\ proc[mproc[m]].code # 0)
              => /\ pc'[m] = "pe_exists"
                 /\ PlayerUntouched
                 /\ UNCHANGED <<current_content, sent>>
         /\ (pc[m] = "pe_exists" /\ Steps(m) /\ file[cid[m]] # "absent")
              => /\ \/ pc'[m] = "st_check" /\ ret'[m] = "p_popen" /\ cid'[m] = cid[m]
                    \/ pc'[m] = "done"
                 /\ PlayerUntouched
                 /\ UNCHANGED <<current_content, sent>>
         /\ (pc[m] = "p_popen" /\ Steps(m))
              => /\ pc'[m] = "done"
                 /\ UNCHANGED <<current_content, sent>>
                 /\ nprocs' # nprocs
                      => /\ player_process' = nprocs'
                         /\ proc'[nprocs'].st = "running"
                         /\ proc'[nprocs'].content = cid[m]]_vars

\* A has crashed twice in a row and plays for the third time; it is still the
\* current content and no 'error' or 'stopped' status was sent
C12_Witness ==
    /\ nprocs = 3
    /\ \A p \in {1, 2} : /\ proc[p].st = "exited" /\ proc[p].by = "self"
                          /\ proc[p].code # 0 /\ proc[p].content = "A"
                          /\ cbCnt[p]["A"] = 1
    /\ proc[3].st = "running" /\ proc[3].content = "A"
    /\ player_process = 3
    /\ current_content = "A"
    /\ events = 1
    /\ sent["error"]["A"] = 0 /\ sent["stopped"]["A"] = 0

\* C13: when the end-of-playback handler, after a nonzero exit code, finds the
\* media file gone, it starts no player and sets current_content to None, so
\* that the already-playing test of the content callback fails for that
\* content afterwards.
C13_CrashWithoutFileIdles ==
    [][\A m \in Monitors :
         /\ (pc[m] = "pe_exists" /\ Steps(m) /\ file[cid[m]] = "absent")
              => /\ pc'[m] = "pe_clear"
                 /\ PlayerUntouched
                 /\ UNCHANGED <<current_content, sent, ret>>
         /\ (pc[m] = "pe_clear" /\ Steps(m))
              => /\ pc'[m] = "done"
                 /\ current_content' = NoContent
                 /\ \A h \in Handlers : cid[h] # NoContent => ~AlreadyPlaying(h)'
                 /\ PlayerUntouched
                 /\ sent' = sent]_vars

\* A crashed, its file had been removed, the handler cleared current_content;
\* the next assignment of A got past the already-playing test and fetches the
\* file again
C13_Witness ==
    /\ deletes = 1
    /\ proc[1].st = "exited" /\ proc[1].by = "self" /\ proc[1].code # 0
    /\ proc[1].content = "A"
    /\ pc[1] = "done"
    /\ nprocs = 1
    /\ events = 2
    /\ dlAttempts["A"] = 2
    /\ cid[Poll] = "A"
    /\ pc[Poll] = "st_check" /\ ret[Poll] = "cb_exists"

\* C18: once a poll round has made content c current and reported it playing,
\* a later poll round that returns c again does not call the assignment
\* handler.
C18_RepeatedRoundNotHandled ==
    \A c \in Contents :
        ~(/\ events >= 2
          /\ OnlyEventsFor(c)
          /\ current_content = c
          /\ sent["playing"][c] = 1
          /\ pc[Poll] = "h_guard"
          /\ cid[Poll] = c)

\* C15: from the moment the first cleanup() has returned, no player process is
\* tracked or alive, the push socket is not connected and _polling_active is
\* False; as this holds in every later state, no player is started and
\* polling is not switched on again after that moment.
C15_CleanupIsFinal ==
    CleanupCompleted
      => /\ player_process = NoProc
         /\ Alive = {}
         /\ ~socket_connected
         /\ ~polling_active

\* C16: once the connect handler has run, and for as long as the connection
\* is up (no disconnect or connect_error event has occurred), a 'register'
\* event with the client id has been emitted, socket_connected is True and
\* _polling_active is False, so that no poll loop starts a status query.
C16_ConnectedStopsPolling ==
    (link = "up" /\ pc[Push] = "idle")
      => /\ socket_connected
         /\ registers >= 1
         /\ client_id
         /\ ~polling_active

\* C17: after the first connect attempt, every state with socket_connected
\* False leads to a state where _polling_active is True and a poll loop runs.
C17_PushDownLeadsToPolling ==
    (ConnectAttempted /\ ~socket_connected) ~> PollingRuns

\* C17, amended: after the first connect attempt, every state with
\* socket_connected False leads to a state where _polling_active is True and
\* a poll loop runs, or to a state where socket_connected is True (the
\* connection had been made and its connect event was still due).
C17_PushDownLeadsToPollingOrPush ==
    (ConnectAttempted /\ ~socket_connected) ~> (PollingRuns \/ socket_connected)

\* The push channel was up and polling off; the connection is lost and the
\* disconnect handler is about to start polling
C17_Witness ==
    /\ ConnectAttempted
    /\ registers >= 1
    /\ ~socket_connected
    /\ link = "down"
    /\ ~polling_active
    /\ loops = 0
    /\ pc[Push] = "sp_set"

\* C19: without a shutdown signal run() does not end: a failed registration
\* leaves the agent running.
C19_RegistrationFailureNotFatal == pc[Main] # "exited"

\* The positions of a thread inside stop()
StopPcs == {"st_check", "st_term", "st_wait", "st_kill", "st_xkill", "st_final"}

\* C21: stop() called with nothing tracked returns at once and changes
\* nothing; every step by which a stop() call returns leaves player_process
\* None, also when terminate() raised, so that a stop() that follows finds
\* nothing tracked.
C21_StopIdempotent ==
    [][\A t \in Threads :
         /\ (pc[t] = "st_check" /\ Steps(t) /\ player_process = NoProc)
              => /\ pc'[t] = ret[t]
                 /\ UNCHANGED <<shared, hist>>
         /\ (pc[t] \in StopPcs /\ Steps(t) /\ pc'[t] \notin StopPcs)
              => /\ pc'[t] = ret[t]
                 /\ player_process' = NoProc
         /\ (pc[t] = "st_term" /\ Steps(t) /\ player_process = NoProc)
              => pc'[t] = "st_final" /\ proc' = proc]_vars

\* A handler's first stop() ended a process; the stop() inside the play()
\* that followed found nothing tracked and returned
C21_Witness ==
    \E h \in Handlers :
        /\ pc[h] = "p_popen"
        /\ player_process = NoProc
        /\ nprocs = 1
        /\ proc[1].st = "exited" /\ proc[1].by = "stop"
        /\ \A u \in Threads \ {h} : pc[u] \in {"idle", "done", "m_wait"}

\* C22: a monitor whose wait has returned and that finds another process, or
\* none, tracked ends without running the callback and changes no shared
\* field.
C22_UntrackedExitDiscarded ==
    [][\A m \in Monitors :
         (pc[m] = "m_wait" /\ Steps(m) /\ mproc[m] # player_process)
           => /\ pc'[m] = "done"
              /\ UNCHANGED <<shared, hist>>]_vars

\* Process 1 was replaced by process 2 and has exited; its monitor's wait has
\* returned and the test of line 303 is next
C22_Witness ==
    /\ pc[1] = "m_wait"
    /\ mproc[1] = 1
    /\ proc[1].st = "exited"
    /\ player_process = 2
    /\ proc[2].st = "running"

\* A send_status_update call has returned
Returned == su.calls >= 1 /\ pc[Reporter] = "idle"

\* C23 as stated: the push channel is used when it is connected; when the
\* emit succeeds no HTTP request is made, otherwise exactly one; a failure on
\* either channel makes the call return False; no channel is tried twice.
C23_FailureReturnsFalse ==
    /\ su.emits <= 1 /\ su.posts <= 1
    /\ Returned =>
         /\ su.push = "ok" => su.posts = 0
         /\ su.push # "ok" => su.posts = 1
         /\ (su.push = "raised" \/ su.http = "failed") => su.result = "False"

\* What a call may have done, and what it returns
SendOutcome ==
    /\ su.emits <= 1 /\ su.posts <= 1
    /\ pc[Reporter] = "su_emit" => su.emits = 0 /\ su.posts = 0
    /\ pc[Reporter] = "su_post" => su.posts = 0
    /\ Returned =>
         /\ su.push = "ok" => su.posts = 0 /\ su.result = "True"
         /\ su.push # "ok" => su.posts = 1
         /\ su.result = "False" <=> su.http = "failed"
         /\ su.result \in {"True", "False"}

\* C23, amended: the push channel is tried first exactly when socket and
\* socket_connected are set; when the emit succeeds no HTTP request is made
\* and True is returned, otherwise exactly one HTTP request is made and the
\* call returns False exactly when that request failed (a failed emit
\* followed by a successful request returns True); no channel is tried twice.
C23_LastChannelDecides ==
    /\ []SendOutcome
    /\ [][(pc[Reporter] = "idle" /\ Steps(Reporter))
            => (pc'[Reporter] = "su_emit" <=> (socket /\ socket_connected))]_vars

\* A failed emit was followed by a request that succeeded
C23_Witness == Returned /\ su.push = "raised" /\ su.http = "ok" /\ su.result = "True"

\* The step is one of handler h in which a request or the download failed
FetchFails(h) ==
    /\ Steps(h)
    /\ \/ pc[h] = "h_info" /\ pc'[h] = "idle"
       \/ pc[h] \in {"h_dl_req", "h_dl_write"} /\ file' = file

\* The step is the last one of a handler h whose callback could not start
\* the player
StartFailedReturns(h) == pc[h] = "h_reset" /\ outcome[h] = "play_fail" /\ Steps(h)

\* The thread is back where it waits for its next event, polling as before
GoesOn(h) == pc'[h] = "idle" /\ polling_active' = polling_active /\ loops' = loops

\* C24 as stated: after a failed content-info request, a failed download or a
\* failed player start the handler returns False and the poll loop goes on.
C24_FailureReturnsFalse ==
    [][\A h \in Handlers :
         (FetchFails(h) \/ StartFailedReturns(h))
           => handled'[h] = "False" /\ GoesOn(h)]_vars

\* C24, amended: a failed content-info request and a failed download make
\* the handler return False; a failed player start is dealt with inside the
\* content callback, whose result is not looked at, and the handler returns
\* True; in every case the thread goes back to wait for its next event and
\* the poll loop goes on.
C24_FailureStaysInHandler ==
    [][\A h \in Handlers :
         /\ FetchFails(h) => handled'[h] = "False" /\ GoesOn(h)
         /\ StartFailedReturns(h) => handled'[h] = "True" /\ GoesOn(h)]_vars

\* The first round's download failed, and the poll loop is handling the
\* assignment of its second round
C24_Witness ==
    /\ events = 2 /\ cid[Poll] = "B" /\ pc[Poll] = "h_info"
    /\ dlAttempts["A"] = 1 /\ file["A"] # "complete"

\* Handler h is inside ensure_content_downloaded, its download under way
Downloading(h) == pc[h] \in {"h_dl_req", "h_dl_write"}

\* Some step of _handle_content_update, of the content callback or of the
\* play() and stop() it calls, taken by thread h
Proceeds(h) ==
    \/ HandleGuardTest(h) \/ HandleGuardSet(h) \/ HandleContentInfo(h)
    \/ EnsureRequest(h) \/ EnsureWrite(h) \/ HandleSpawnReset(h)
    \/ CallbackTest(h) \/ CallbackExists(h) \/ CallbackSetCurrent(h)
    \/ CallbackPlaying(h) \/ CallbackError(h)
    \/ StopTest(h) \/ StopTerminate(h) \/ StopWait(h) \/ StopKill(h) \/ StopFinally(h)
    \/ PlaySpawn(h)

\* C25: while one handler is downloading content A, an assignment for
\* another content B that arrives at the other handler is not turned away by
\* the duplicate test, and the other handler can take its next step in every
\* state up to its return: nothing makes it wait for the download.
C25_DownloadDoesNotBlock ==
    \A h1 \in Handlers : \A h2 \in Handlers \ {h1} :
        Downloading(h1) =>
          /\ pc[h2] # "idle" => ENABLED Proceeds(h2)
          /\ (pc[h2] = "h_guard" /\ cid[h2] # cid[h1] /\ last_handled_content_id = cid[h1])
               => ENABLED (HandleGuardTest(h2) /\ pc'[h2] = "h_set")

\* The poll thread is still writing A's file; B, whose guard was set after
\* A's, was downloaded and is playing, and its handler has returned
C25_Witness ==
    /\ pc[Poll] = "h_dl_write" /\ cid[Poll] = "A"
    /\ pc[Push] = "idle" /\ handled[Push] = "True"
    /\ last_handled_content_id = "B" /\ dlAttempts["B"] = 1
    /\ current_content = "B"
    /\ player_process # NoProc /\ proc[player_process].st = "running"
    /\ proc[player_process].content = "B"

\* connect() found no socketio package: it is past the import and no client
\* object exists
NoPushLibrary == pc[Main] \notin {"start", "conn", "exited"} /\ ~socket

\* C26: once connect() has failed to import the socket library, no socket is
\* ever created and no push connection is ever attempted or made; polling is
\* started by connect() and, from the moment the main loop runs, stays
\* active with one poll loop, whatever reconnect() is called.
C26_PollOnlyForever ==
    /\ [](NoPushLibrary =>
            /\ link = "down" /\ ~socket_connected /\ registers = 0
            /\ pc[Main] \in {"sp_set", "idle"}
            /\ pc[Main] = "idle" => polling_active /\ loops = 1)
    /\ [][NoPushLibrary => ~socket']_vars

\* The agent without the socket library, in its main loop, its poll loop
\* having made its queries
C26_Witness == NoPushLibrary /\ pc[Main] = "idle" /\ PollingRuns /\ queries = MaxQueries

\* No handler, callback, play() or stop() is under way: every thread waits
\* for its next event, waits on its process, or has ended
AtRest == \A t \in Threads : pc[t] \in {"idle", "done", "m_wait"}

\* The process that player_process names is alive
TrackedAlive == player_process # NoProc /\ proc[player_process].st = "running"

\* C27: when nothing is under way, a tracked player process is alive and
\* current_content is not None, that process plays the content that
\* current_content names; a crash restart that was decided before its
\* backoff never puts the old content back over a newer one.
C27_PlayingIsCurrent ==
    (AtRest /\ TrackedAlive /\ current_content # NoContent)
      => proc[player_process].content = current_content

\* C28: when nothing is under way and current_content names a content, a
\* player process started for that content is the tracked one; an
\* assignment that fails after the old player was stopped does not leave
\* current_content naming the old content with no process tracked.
C28_CurrentIsTracked ==
    (AtRest /\ current_content # NoContent)
      => /\ player_process # NoProc
         /\ proc[player_process].content = current_content

\* Two events were received, A first and then B; each was handled on its own
\* thread and ended with its player started and 'playing' reported; no
\* player has ended by itself and no end-of-playback callback has run
BothHandled ==
    /\ events = 2 /\ first = "A"
    /\ \A h \in Handlers : pc[h] = "idle" /\ handled[h] = "True"
    /\ \A c \in Contents : infoReqs[c] = 1 /\ sent["playing"][c] = 1
    /\ \A p \in Procs : proc[p].by # "self" /\ Callbacks(p) = 0

\* C29: when A was received first and B later, and both were handled
\* successfully, then with both handlers finished and nothing else under way
\* current_content is B and the tracked player plays B.
C29_LatestAssignmentWins ==
    (BothHandled /\ AtRest)
      => /\ current_content = "B"
         /\ player_process # NoProc
         /\ proc[player_process].content = "B"

\* C30: at most one _polling_loop thread runs at any time, whatever the
\* connect, connect_error and disconnect events and the reconnect() calls.
C30_OnePollLoop == loops <= 1

\* Handler h has set the guard for content c and has not returned yet
Handling(h, c) == cid[h] = c /\ pc[h] \notin {"idle", "h_guard", "h_set"}

\* The step clears the guard on behalf of content c: c's reset thread makes
\* its assignment, or a handler of c returns after a failure
ClearsFor(c) ==
    /\ last_handled_content_id' = NoContent
    /\ \/ resetArmed'[c] < resetArmed[c]
       \/ \E h \in Handlers : cid[h] = c /\ Steps(h)

\* C32: a step that clears the guard for content A never finds the guard
\* holding another content B whose handler is still at work.
C32_GuardOfOtherKept ==
    [][\A a \in Contents : \A b \in Contents \ {a} :
         ClearsFor(a) =>
           ~(last_handled_content_id = b /\ \E h \in Handlers : Handling(h, b))]_vars

\* C31: once a handler of X has returned after starting X's delayed reset,
\* the guard comes to hold X no longer, so that a later event for X is
\* handled again; and the assignment of a delayed reset started for X is
\* made only while the guard holds X.
C31_GuardClearedIfStillHeld ==
    /\ \A c \in Contents :
         (resetSleep[c] > 0) ~> (last_handled_content_id # c)
    /\ [][\A c \in Contents :
            resetArmed'[c] < resetArmed[c] => last_handled_content_id = c]_vars

\* C33: a call that finds the content's file in downloads/ makes no download
\* request and goes on with the path; once a download has completed, later
\* calls for that content request nothing as long as nobody else removes the
\* file; and no step of the agent removes a file.
C33_DownloadIfAbsent ==
    [][/\ \A h \in Handlers :
            (pc[h] = "h_info" /\ Steps(h) /\ file[cid[h]] # "absent")
              => /\ dlAttempts' = dlAttempts /\ file' = file
                 /\ pc'[h] \in {"cb_check", "idle"}
       /\ \A c \in Contents :
            /\ (file[c] = "complete" /\ deletes' = deletes)
                 => file'[c] = "complete" /\ dlAttempts'[c] = dlAttempts[c]
            /\ (file[c] # "absent" /\ file'[c] = "absent") => deletes' = deletes + 1]_vars

\* The second round for A found the file of the first round's download and
\* requested only the content info
C33_Witness ==
    /\ events = 2 /\ infoReqs["A"] = 2 /\ dlAttempts["A"] = 1
    /\ file["A"] = "complete" /\ deletes = 0
    /\ pc[Poll] = "cb_check"

\* C34: a call that treats the content's file as already downloaded (it
\* finds the file and goes on to the content callback without a request)
\* finds the file of a download that completed.
C34_PresentMeansComplete ==
    [][\A h \in Handlers :
         (pc[h] = "h_info" /\ Steps(h) /\ pc'[h] = "cb_check")
           => file[cid[h]] = "complete"]_vars

\* C35: while running with a socket and socket_connected False, every round
\* of the main loop calls socket.connect() again; and whenever an attempt
\* succeeds (the connection is made, its connect event due), the agent comes
\* to a state with socket_connected True and _polling_active False.
C35_ReconnectsUntilConnected ==
    /\ [][(pc[Main] = "idle" /\ Steps(Main) /\ socket)
            => (~socket_connected /\ pc'[Main] \in {"re_wait", "re_exc"})]_vars
    /\ [](pc[Main] = "idle" /\ running /\ socket /\ ~socket_connected
            => ENABLED MainLoopReconnect)
    /\ (socket /\ link = "up_new") ~> (socket_connected /\ ~polling_active)

\* The first connect failed and polling was started; a reconnect() call of
\* the main loop is inside socket.connect(), the connection was made, the
\* connect handler has run and has switched polling off
C35_Witness ==
    /\ pc[Main] = "re_wait" /\ pc[Push] = "idle"
    /\ link = "up" /\ socket_connected /\ ~polling_active
    /\ registers = 1 /\ loops >= 1

====
